---- MODULE Spec2Model ----
(***************************************************************************)
(* State-machine model of i.landsat.import (LandsatImporter and main) and   *)
(* of i.landsat.download (main).                                           *)
(* File and directory names are sequences of one-character strings, so     *)
(* that the glob and regular-expression filters are computed on the names. *)
(***************************************************************************)
EXTENDS Integers, Sequences, FiniteSets, TLC

\* Number of scenes that may have an archive in the input directory.
MaxScenes == 2

\* Number of scenes (the first ones) that may already have their directory in
\* the unzip directory when the run starts.
MaxExtracted == 1

Scenes == 1..MaxScenes

Extracted == 1..MaxExtracted

Digits == <<"1", "2", "3", "4", "5", "6", "7", "8", "9">>

\* Name of the top-level directory of scene s (and stem of its archive).
SceneName(s) == <<"S", Digits[s]>>

\* Base names of the member files every scene holds.
Members ==
    { <<"_", "B", "4", ".", "t", "i", "f">>,
      <<"_", "B", "4", ".", "T", "I", "F">>,
      <<"_", "M", "T", "L", ".", "t", "x", "t">> }

\* A file of the unzip directory: <<scene, base name>>.
AllFiles == Scenes \X Members

\* Values of options['pattern'] (band name pattern); <<>> is "not given".
Patterns == { <<>>, <<"M", "T", "L">> }

\* Values of options['pattern_file'] (file name pattern); <<>> is "not given".
FilePatterns == { <<>>, <<"S", "1">> }

Extents == {"input", "region"}

\* s occurs in name as a contiguous substring ending at or before position last.
OccursBefore(s, name, last) ==
    \E i \in 1..(Len(name) + 1) :
        /\ i + Len(s) - 1 <= last
        /\ SubSeq(name, i, i + Len(s) - 1) = s

\* glob '*' + pat + '*' on a directory entry name.
GlobMatch(pat, name) == OccursBefore(pat, name, Len(name))

\* The band part of the regular expression built by filter(): "_B" when no
\* pattern is given, the pattern otherwise.
FilterWord(pattern) == IF pattern # <<>> THEN pattern ELSE <<"_", "B">>

\* re.match of  .*<word>.*.tif$  on a base name: the word, then anything,
\* then any one character, then the lower-case letters tif at the end.
ReMatch(word, name) ==
    /\ Len(name) >= 4
    /\ SubSeq(name, Len(name) - 2, Len(name)) = <<"t", "i", "f">>
    /\ OccursBefore(word, name, Len(name) - 4)

\* Position of the last "." of a base name (0 when there is none).
LastDot(name) ==
    LET ds == { i \in 1..Len(name) : name[i] = "." }
    IN  IF ds = {} THEN 0 ELSE CHOOSE i \in ds : \A j \in ds : j <= i

\* os.path.splitext(os.path.basename(filename))[0], kept with its scene.
map_name(f) ==
    LET d == LastDot(f[2])
    IN  <<f[1], IF d <= 1 THEN f[2] ELSE SubSeq(f[2], 1, d - 1)>>

MapNames == { map_name(f) : f \in AllFiles }

VARIABLES
    flags,        \* flags of the command line: r, l, o, n, p
    options,      \* options of the command line: pattern, pattern_file, extent
    exists,       \* os.path.exists of the input and of the unzip directory
    archives,     \* scenes with a .tar.gz archive in the input directory
    match,        \* per scene: r.in.gdal -j accepts its rasters (projection matches)
    dirs,         \* scene directories present in the unzip directory
    created,      \* scene directories that unpacking created in this run
    unpacked,     \* archives passed to shutil.unpack_archive in this run
    removed,      \* scene directories removed by __del__
    dir_list,     \* self._dir_list
    files,        \* self.files
    idx,          \* position of the loop over self.files
    pc,           \* position of the program
    outcome,      \* how the run ended
    module,       \* module chosen by import_products
    args,         \* args built by import_products
    datasets,     \* raster maps of the current mapset: map name -> datatype
    tmpmaps,      \* map names whose tmp_<name> raster exists
    temp_region,  \* a temporary region (WIND_OVERRIDE) is in force
    checked,      \* files given to _check_projection
    loads,        \* files for which the import module was run
    rounded,      \* map names replaced by their rounded copy
    finished,     \* files whose _import_file reached raster_history
    printed,      \* files written by print_products
    settings,     \* i.landsat.download: the settings file: readable, its lines fd
    user,         \* i.landsat.download: user of main
    password,     \* i.landsat.download: password of main
    requests      \* i.landsat.download: requests made to EarthExplorer, in order

vars == <<flags, options, exists, archives, match, dirs, created, unpacked, removed,
          dir_list, files, idx, pc, outcome, module, args, datasets, tmpmaps,
          temp_region, checked, loads, rounded, finished, printed,
          settings, user, password, requests>>

inputs == <<flags, options, exists, archives, match>>
fsys == <<dirs, created, unpacked, removed, dir_list>>
grassdb == <<datasets, tmpmaps, temp_region, rounded, finished>>
progress == <<files, idx, module, args, checked, loads, printed>>
download == <<settings, user, password, requests>>

\* The flags main() and the importer read: flags['r'], flags['l'], flags['o']
\* (import_products, __del__), flags['n'] (filter) and flags['p'] (main).
FlagNames == {"r", "l", "o", "n", "p"}

\* Datatypes of a raster map; "none" stands for "no such map".
DataTypes == {"CELL", "FCELL", "DCELL"}

\* Datatypes the import modules write for a Landsat band: integer for a band
\* taken as it is, single-precision float for a float product or a band that
\* was resampled bilinearly.
LoadTypes == {"CELL", "FCELL"}

Range(s) == { s[i] : i \in 1..Len(s) }

\* The state when main() is entered: gs.parser() has set options and flags,
\* nothing has been unpacked, imported or printed.
Init ==
    /\ flags \in [FlagNames -> BOOLEAN]
    /\ options \in [pattern : Patterns, pattern_file : FilePatterns, extent : Extents]
    /\ exists \in [input : BOOLEAN, unzip_dir : BOOLEAN]
    /\ archives \in SUBSET Scenes
    /\ dirs \in SUBSET Extracted
    /\ ~exists.input => archives = {}
    /\ ~exists.unzip_dir => dirs = {}
    /\ match \in [Scenes -> BOOLEAN]
    /\ created = {}
    /\ unpacked = {}
    /\ removed = {}
    /\ dir_list = <<>>
    /\ files = <<>>
    /\ idx = 0
    /\ pc = "start"
    /\ outcome = "running"
    /\ module = "none"
    /\ args = [flags |-> "unset", extent |-> "unset", resample |-> "unset",
               resolution |-> "unset", memory |-> "unset"]
    /\ datasets = [m \in MapNames |-> "none"]
    /\ tmpmaps = {}
    /\ temp_region = FALSE
    /\ checked = {}
    /\ loads = {}
    /\ rounded = {}
    /\ finished = {}
    /\ printed = {}
    /\ settings = [readable |-> FALSE, fd |-> <<>>]
    /\ user = <<"None">>
    /\ password = <<"None">>
    /\ requests = <<>>

\* gs.fatal(): the message is printed and the interpreter exits with status 1;
\* the importer object, if constructed, is then finalised (__del__).
Fatal(msg) ==
    /\ outcome' = msg
    /\ pc' = "del"

\* An exception that nothing catches: traceback, exit status 1, then __del__.
Uncaught ==
    /\ outcome' = "exception"
    /\ pc' = "del"

\* LandsatImporter.__init__: both directories must exist.
InitImporter ==
    /\ pc = "start"
    /\ IF ~exists.input THEN Fatal("fatal_input_dir")
       ELSE IF ~exists.unzip_dir THEN Fatal("fatal_unzip_dir")
       ELSE pc' = "unzip" /\ UNCHANGED outcome
    /\ UNCHANGED <<inputs, download, fsys, grassdb, progress>>

\* Archives of the input directory selected by the glob of _unzip.
InputFiles ==
    { a \in archives : GlobMatch(options.pattern_file, SceneName(a)) }

\* One iteration of the loop of _unzip: the next archive is unpacked into the
\* unzip directory. The argument force is not read by _unzip.
UnpackArchive(force) ==
    /\ pc = "unzip"
    /\ \E a \in InputFiles \ unpacked :
          /\ unpacked' = unpacked \cup {a}
          /\ dirs' = dirs \cup {a}
          /\ created' = IF a \in dirs THEN created ELSE created \cup {a}
    /\ UNCHANGED <<inputs, download, removed, dir_list, grassdb, progress, pc, outcome>>

\* shutil.unpack_archive raises (unreadable archive): nothing catches it.
UnpackError ==
    /\ pc = "unzip"
    /\ InputFiles \ unpacked # {}
    /\ Uncaught
    /\ UNCHANGED <<inputs, download, fsys, grassdb, progress>>

\* _unzip as called from filter(): force = not flags['n'].
Unzip == UnpackArchive(~flags["n"])

\* Ascending sequence of the elements of a set of scenes (listing order).
RECURSIVE Ordered(_)
Ordered(S) ==
    IF S = {} THEN <<>>
    ELSE LET s == CHOOSE x \in S : \A y \in S : x <= y
         IN  <<s>> \o Ordered(S \ {s})

\* Files of one scene directory whose base name matches the expression.
RECURSIVE SceneFiles(_, _)
SceneFiles(s, names) ==
    IF names = {} THEN <<>>
    ELSE LET n == CHOOSE x \in names : TRUE
         IN  <<<<s, n>>>> \o SceneFiles(s, names \ {n})

RECURSIVE Walk(_, _)
Walk(scenes, word) ==
    IF scenes = <<>> THEN <<>>
    ELSE SceneFiles(Head(scenes), { n \in Members : ReMatch(word, n) })
            \o Walk(Tail(scenes), word)

\* glob of _filter on the unzip directory.
GlobScenes == { s \in dirs : GlobMatch(options.pattern_file, SceneName(s)) }

\* Filter without the test of len(scenes).
Filter_NoSceneCheck ==
    /\ pc = "unzip"
    /\ InputFiles \ unpacked = {}
    /\ files' = Walk(Ordered(GlobScenes), FilterWord(options.pattern))
    /\ pc' = "main"
    /\ UNCHANGED outcome
    /\ UNCHANGED <<inputs, download, fsys, grassdb, idx, module, args, checked, loads, printed>>

\* filter() and the part of _filter after _unzip: the scene directories are
\* globbed, walked and their file names matched; no scene at all is fatal.
Filter ==
    /\ pc = "unzip"
    /\ InputFiles \ unpacked = {}
    /\ IF GlobScenes = {}
       THEN /\ Fatal("fatal_nothing_pattern_file")
            /\ UNCHANGED files
       ELSE /\ files' = Walk(Ordered(GlobScenes), FilterWord(options.pattern))
            /\ pc' = "main"
            /\ UNCHANGED outcome
    /\ UNCHANGED <<inputs, download, fsys, grassdb, idx, module, args, checked, loads, printed>>

\* ModuleFor with the two tests in the other order: -r wins over -l.
ModuleFor_ReprojectFirst(reproject, link) ==
    IF reproject THEN "r.import"
    ELSE IF link THEN "r.external"
    ELSE "r.in.gdal"

\* The module import_products chooses from its arguments.
ModuleFor(reproject, link) ==
    IF link THEN "r.external"
    ELSE IF reproject THEN "r.import"
    ELSE "r.in.gdal"

\* ArgsFor whose region flag replaces the override flag instead of joining it.
ArgsFor_RegionReplaces(reproject, link, override) ==
    LET o == IF override THEN "o" ELSE "None"
        none == [flags |-> "unset", extent |-> "unset", resample |-> "unset",
                 resolution |-> "unset", memory |-> "unset"]
    IN  IF link THEN [none EXCEPT !.flags = o]
        ELSE IF reproject
             THEN [none EXCEPT !.memory = "memory", !.resample = "bilinear",
                               !.resolution = "value", !.extent = options.extent]
             ELSE [none EXCEPT !.memory = "memory",
                               !.flags = IF options.extent = "region" THEN "r" ELSE o]

\* The args import_products builds; "unset" is a key the dictionary lacks.
ArgsFor(reproject, link, override) ==
    LET o == IF override THEN "o" ELSE "None"
        none == [flags |-> "unset", extent |-> "unset", resample |-> "unset",
                 resolution |-> "unset", memory |-> "unset"]
    IN  IF link THEN [none EXCEPT !.flags = o]
        ELSE IF reproject
             THEN [none EXCEPT !.memory = "memory", !.resample = "bilinear",
                               !.resolution = "value", !.extent = options.extent]
             ELSE [none EXCEPT !.memory = "memory",
                               !.flags = IF options.extent = "region"
                                         THEN (IF o # "None" THEN "or" ELSE "r")
                                         ELSE o]

\* NeedsCheck without the test of override.
NeedsCheck_NoOverride(reproject, link, override) ==
    link \/ (~link /\ ~reproject)

\* NeedsCheck in which -r switches the check off also when linking.
NeedsCheck_ReprojectSkips(reproject, link, override) ==
    ~override /\ ~reproject

\* NeedsCheck without the case of linking.
NeedsCheck_NoLink(reproject, link, override) ==
    ~override /\ (~link /\ ~reproject)

\* The condition under which the loop of import_products checks the projection.
NeedsCheck(reproject, link, override) ==
    ~override /\ (link \/ (~link /\ ~reproject))

\* _check_projection: r.in.gdal -j succeeds or raises CalledModuleError.
check_projection(f) == match[f[1]]

\* Main without the test of len(importer.files).
Main_NoEmptyCheck ==
    /\ pc = "main"
    /\ IF flags["p"]
       THEN /\ pc' = "print"
            /\ idx' = 1
            /\ UNCHANGED <<outcome, module, args>>
       ELSE /\ pc' = "loop"
            /\ idx' = 1
            /\ module' = ModuleFor(flags["r"], flags["l"])
            /\ args' = ArgsFor(flags["r"], flags["l"], flags["o"])
            /\ UNCHANGED outcome
    /\ UNCHANGED <<inputs, download, fsys, grassdb, files, checked, loads, printed>>

\* main() after filter(): an empty selection is fatal; -p prints and returns;
\* otherwise import_products prepares module and args for its loop.
Main ==
    /\ pc = "main"
    /\ IF Len(files) < 1
       THEN /\ Fatal("fatal_nothing_pattern")
            /\ UNCHANGED <<idx, module, args>>
       ELSE IF flags["p"]
       THEN /\ pc' = "print"
            /\ idx' = 1
            /\ UNCHANGED <<outcome, module, args>>
       ELSE /\ pc' = "loop"
            /\ idx' = 1
            /\ module' = ModuleFor(flags["r"], flags["l"])
            /\ args' = ArgsFor(flags["r"], flags["l"], flags["o"])
            /\ UNCHANGED outcome
    /\ UNCHANGED <<inputs, download, fsys, grassdb, files, checked, loads, printed>>

\* Head of the loop of import_products for the next file: the projection check
\* where it is due, fatal when it fails; then _import_file is entered.
LoopCheck ==
    /\ pc = "loop"
    /\ idx <= Len(files)
    /\ LET f == files[idx]
       IN  IF NeedsCheck(flags["r"], flags["l"], flags["o"])
           THEN /\ checked' = checked \cup {f}
                /\ IF ~check_projection(f)
                   THEN Fatal("fatal_projection")
                   ELSE /\ pc' = IF module = "r.import" THEN "resolution" ELSE "run"
                        /\ UNCHANGED outcome
           ELSE /\ pc' = IF module = "r.import" THEN "resolution" ELSE "run"
                /\ UNCHANGED <<checked, outcome>>
    /\ UNCHANGED <<inputs, download, fsys, grassdb, files, idx, module, args, loads, printed>>

\* ImportDone that may return one file early.
ImportDone_EarlyReturn ==
    /\ pc = "loop"
    /\ idx >= Len(files)
    /\ outcome' = "ok"
    /\ pc' = "del"
    /\ UNCHANGED <<inputs, download, fsys, grassdb, progress>>

\* The loop of import_products is exhausted: main returns 0.
ImportDone ==
    /\ pc = "loop"
    /\ idx > Len(files)
    /\ outcome' = "ok"
    /\ pc' = "del"
    /\ UNCHANGED <<inputs, download, fsys, grassdb, progress>>

\* except CalledModuleError: pass -- _import_file returns, the loop goes on.
NextFile ==
    /\ idx' = idx + 1
    /\ pc' = "loop"

\* _raster_resolution, called before the try block of _import_file: GDAL opens
\* the file and its geotransform is read; an unreadable file raises an
\* exception that is no CalledModuleError, a missing GDAL library is fatal.
RasterResolution ==
    /\ pc = "resolution"
    /\ \/ /\ args' = [args EXCEPT !.resolution = "value_set"]
          /\ pc' = "run"
          /\ UNCHANGED outcome
       \/ /\ Uncaught
          /\ UNCHANGED args
       \/ /\ Fatal("fatal_gdal")
          /\ UNCHANGED args
    /\ UNCHANGED <<inputs, download, fsys, grassdb, files, idx, module, checked, loads, printed>>

\* gs.run_command(module, input=filename, output=mapname, **args).
RunModule ==
    /\ pc = "run"
    /\ loads' = loads \cup {files[idx]}
    /\ \/ \E t \in LoadTypes :
             /\ datasets' = [datasets EXCEPT ![map_name(files[idx])] = t]
             /\ pc' = "info"
             /\ UNCHANGED idx
       \/ /\ NextFile
          /\ UNCHANGED datasets
    /\ UNCHANGED <<inputs, download, fsys, tmpmaps, temp_region, rounded, finished,
                   files, module, args, checked, printed, outcome>>

\* IsFloat that knows double precision only.
IsFloat_OnlyDouble(datatype) == datatype = "DCELL"

\* The test of _import_file on the datatype of the new map.
IsFloat(datatype) == datatype \in {"FCELL", "DCELL"}

\* gs.raster_info(mapname)['datatype'] and the test on it.
RasterInfo ==
    /\ pc = "info"
    /\ \/ /\ pc' = IF IsFloat(datasets[map_name(files[idx])])
                   THEN "use_temp_region" ELSE "history"
          /\ UNCHANGED idx
       \/ NextFile
    /\ UNCHANGED <<inputs, download, fsys, grassdb, files, module, args, checked, loads,
                   printed, outcome>>

\* gs.use_temp_region().
UseTempRegion ==
    /\ pc = "use_temp_region"
    /\ temp_region' = TRUE
    /\ pc' = "g.region"
    /\ UNCHANGED <<inputs, download, fsys, datasets, tmpmaps, rounded, finished, progress, outcome>>

\* gs.run_command('g.region', raster=mapname).
GRegion ==
    /\ pc = "g.region"
    /\ \/ pc' = "r.mapcalc" /\ UNCHANGED idx
       \/ NextFile
    /\ UNCHANGED <<inputs, download, fsys, grassdb, files, module, args, checked, loads,
                   printed, outcome>>

\* Mapcalc that rounds in place: <mapname> = round(<mapname>), no tmp_ map.
Mapcalc_InPlace ==
    /\ pc = "r.mapcalc"
    /\ \/ /\ datasets' = [datasets EXCEPT ![map_name(files[idx])] = "CELL"]
          /\ pc' = "g.rename"
          /\ UNCHANGED idx
       \/ /\ NextFile
          /\ UNCHANGED datasets
    /\ UNCHANGED <<inputs, download, fsys, tmpmaps, temp_region, rounded, finished,
                   files, module, args, checked, loads, printed, outcome>>

\* r.mapcalc tmp_<mapname> = round(<mapname>): the map appears only when the
\* module succeeds.
Mapcalc ==
    /\ pc = "r.mapcalc"
    /\ \/ /\ tmpmaps' = tmpmaps \cup {map_name(files[idx])}
          /\ pc' = "g.rename"
          /\ UNCHANGED idx
       \/ /\ NextFile
          /\ UNCHANGED tmpmaps
    /\ UNCHANGED <<inputs, download, fsys, datasets, temp_region, rounded, finished,
                   files, module, args, checked, loads, printed, outcome>>

\* g.rename --overwrite raster=tmp_<mapname>,<mapname>: the old map is removed
\* and the rounded one takes its name; a failure leaves the old map or, when it
\* comes after the removal, no map under the name.
Rename ==
    /\ pc = "g.rename"
    /\ LET m == map_name(files[idx])
       IN  \/ /\ datasets' = [datasets EXCEPT ![m] = "CELL"]
              /\ tmpmaps' = tmpmaps \ {m}
              /\ rounded' = rounded \cup {m}
              /\ pc' = "del_temp_region"
              /\ UNCHANGED idx
           \/ /\ NextFile
              /\ UNCHANGED <<datasets, tmpmaps, rounded>>
           \/ /\ NextFile
              /\ datasets' = [datasets EXCEPT ![m] = "none"]
              /\ UNCHANGED <<tmpmaps, rounded>>
    /\ UNCHANGED <<inputs, download, fsys, temp_region, finished, files, module, args,
                   checked, loads, printed, outcome>>

\* gs.del_temp_region().
DelTempRegion ==
    /\ pc = "del_temp_region"
    /\ temp_region' = FALSE
    /\ pc' = "history"
    /\ UNCHANGED <<inputs, download, fsys, datasets, tmpmaps, rounded, finished, progress, outcome>>

\* gs.raster_history(mapname); whether it succeeds or raises
\* CalledModuleError, _import_file returns and the loop goes on.
RasterHistory ==
    /\ pc = "history"
    /\ finished' = finished \cup {files[idx]}
    /\ NextFile
    /\ UNCHANGED <<inputs, download, fsys, datasets, tmpmaps, temp_region, rounded,
                   files, module, args, checked, loads, printed, outcome>>

\* One iteration of print_products: projection check, EPSG code read through
\* GDAL (an unreadable file raises, a missing library is fatal), line written.
PrintProduct ==
    /\ pc = "print"
    /\ idx <= Len(files)
    /\ checked' = checked \cup {files[idx]}
    /\ \/ /\ printed' = printed \cup {files[idx]}
          /\ idx' = idx + 1
          /\ UNCHANGED <<pc, outcome>>
       \/ /\ Uncaught
          /\ UNCHANGED <<printed, idx>>
       \/ /\ Fatal("fatal_gdal")
          /\ UNCHANGED <<printed, idx>>
    /\ UNCHANGED <<inputs, download, fsys, grassdb, files, module, args, loads>>

\* PrintDone without the return: main goes on to import_products.
PrintDone_NoReturn ==
    /\ pc = "print"
    /\ idx > Len(files)
    /\ pc' = "loop"
    /\ idx' = 1
    /\ module' = ModuleFor(flags["r"], flags["l"])
    /\ args' = ArgsFor(flags["r"], flags["l"], flags["o"])
    /\ UNCHANGED <<inputs, download, fsys, grassdb, files, checked, loads, printed, outcome>>

\* print_products is through: main returns 0.
PrintDone ==
    /\ pc = "print"
    /\ idx > Len(files)
    /\ outcome' = "ok"
    /\ pc' = "del"
    /\ UNCHANGED <<inputs, download, fsys, grassdb, progress>>

\* Del that removes what was unpacked, and does so whatever the flags are.
Del_RemoveUnpacked ==
    /\ pc = "del"
    /\ pc' = "end"
    /\ dirs' = dirs \ unpacked
    /\ removed' = removed \cup (unpacked \cap dirs)
    /\ UNCHANGED <<inputs, download, created, unpacked, dir_list, grassdb, progress, outcome>>

\* __del__: with -l nothing is removed; otherwise every directory of
\* _dir_list is removed from the unzip directory, an OSError being ignored.
Del ==
    /\ pc = "del"
    /\ pc' = "end"
    /\ IF flags["l"]
       THEN UNCHANGED <<dirs, removed>>
       ELSE \E gone \in SUBSET (Range(dir_list) \cap dirs) :
               /\ dirs' = dirs \ gone
               /\ removed' = removed \cup gone
    /\ UNCHANGED <<inputs, download, created, unpacked, dir_list, grassdb, progress, outcome>>

Next ==
    \/ InitImporter
    \/ Unzip
    \/ UnpackError
    \/ Filter
    \/ Main
    \/ LoopCheck
    \/ ImportDone
    \/ RasterResolution
    \/ RunModule
    \/ RasterInfo
    \/ UseTempRegion
    \/ GRegion
    \/ Mapcalc
    \/ Rename
    \/ DelTempRegion
    \/ RasterHistory
    \/ PrintProduct
    \/ PrintDone
    \/ Del

Spec == Init /\ [][Next]_vars

(***************************************************************************)
(* i.landsat.download: main().                                             *)
(* Texts (lines of the settings file, typed answers, the id option) are    *)
(* sequences of one-character strings, so that rstrip, strip and split are *)
(* computed. requests records, in order, the calls main makes on the       *)
(* landsatxplore objects: <<"API">> (landsatxplore.api.API(user,           *)
(* password), which opens the catalog session with the credentials),       *)
(* <<"search">>, <<"api_logout">>, <<"EarthExplorer">> (the download       *)
(* session opened with the credentials), <<"download", id>> and            *)
(* <<"ee_logout">>.                                                        *)
(***************************************************************************)

\* Longest settings file, in lines.
MaxLines == 2

\* Longest value of the id option, in characters.
MaxIdLen == 3

\* Lines a settings file is made of (without the line end): empty, blanks
\* only, a word, a word between blanks.
LineSet == { <<>>, <<" ">>, <<"u">>, <<" ", "u", " ">> }

SettingsFiles == UNION { [1..n -> LineSet] : n \in 0..MaxLines }

\* The value None of user and password: no text, since a text is made of
\* one-character strings.
None == <<"None">>

\* Answers typed at the prompts of raw_input and getpass.
Typed == { <<>>, <<"u">> }

\* Values of the id option: scene ids a and b, joined by commas.
IdOptions == UNION { [1..n -> {"a", "b", ","}] : n \in 0..MaxIdLen }

\* str.rstrip(): trailing white space removed.
RECURSIVE rstrip(_)
rstrip(s) ==
    IF s = <<>> THEN s
    ELSE IF s[Len(s)] = " " THEN rstrip(SubSeq(s, 1, Len(s) - 1))
    ELSE s

\* str.strip(): leading and trailing white space removed.
RECURSIVE strip(_)
strip(s) ==
    IF s = <<>> THEN s
    ELSE IF s[1] = " " THEN strip(Tail(s))
    ELSE rstrip(s)

\* list(filter(None, (line.rstrip() for line in fd))): the lines of the
\* settings file, right-stripped, the empty ones dropped.
lines(fd) ==
    SelectSeq([i \in 1..Len(fd) |-> rstrip(fd[i])], LAMBDA l : l # <<>>)

\* str.split(','): the fields between the commas; a text without comma,
\* the empty text included, is one field.
RECURSIVE split(_)
split(s) ==
    IF \A i \in 1..Len(s) : s[i] # "," THEN <<s>>
    ELSE LET k == CHOOSE i \in 1..Len(s) :
                     s[i] = "," /\ \A j \in 1..(i - 1) : s[j] # ","
         IN  <<SubSeq(s, 1, k - 1)>> \o split(SubSeq(s, k + 1, Len(s)))

\* ids = options['id'].split(',')
ids == split(options.id)

\* Variables of the importer, which the downloader leaves alone.
importer == <<exists, archives, match, fsys, grassdb, files, module, args,
              checked, loads, printed>>

\* The state when main() of i.landsat.download is entered: gs.parser() has
\* set options and flags, user = password = None, no request has been made.
InitDL ==
    /\ flags \in [{"l"} -> BOOLEAN]
    /\ options \in [settings : {"-", "file"}, id : IdOptions]
    /\ settings \in [readable : BOOLEAN, fd : SettingsFiles]
    /\ ~settings.readable => settings.fd = <<>>
    /\ options.settings = "-" => ~settings.readable
    /\ user = None
    /\ password = None
    /\ requests = <<>>
    /\ idx = 0
    /\ pc = "dl_start"
    /\ outcome = "running"
    /\ exists = [input |-> TRUE, unzip_dir |-> TRUE]
    /\ archives = {}
    /\ match = [s \in Scenes |-> TRUE]
    /\ dirs = {}
    /\ created = {}
    /\ unpacked = {}
    /\ removed = {}
    /\ dir_list = <<>>
    /\ files = <<>>
    /\ module = "none"
    /\ args = [flags |-> "unset", extent |-> "unset", resample |-> "unset",
               resolution |-> "unset", memory |-> "unset"]
    /\ datasets = [m \in MapNames |-> "none"]
    /\ tmpmaps = {}
    /\ temp_region = FALSE
    /\ checked = {}
    /\ loads = {}
    /\ rounded = {}
    /\ finished = {}
    /\ printed = {}

\* gs.fatal() in the downloader: message, exit status 1.
FatalDL(msg) ==
    /\ outcome' = msg
    /\ pc' = "dl_end"

\* An exception that nothing in the downloader catches.
UncaughtDL ==
    /\ outcome' = "exception"
    /\ pc' = "dl_end"

\* main, the credentials: typed at the prompts when settings is '-' (the
\* name raw_input exists on Python 2 only: on Python 3 the call raises
\* NameError), else the first two non-blank lines of the settings file.
ReadSettings ==
    /\ pc = "dl_start"
    /\ IF options.settings = "-"
       THEN \/ \E u \in Typed, p \in Typed :
                 /\ user' = u
                 /\ password' = p
                 /\ pc' = "dl_api"
                 /\ UNCHANGED outcome
            \/ UncaughtDL /\ UNCHANGED <<user, password>>
       ELSE IF ~settings.readable
       THEN FatalDL("fatal_settings_open") /\ UNCHANGED <<user, password>>
       ELSE IF Len(lines(settings.fd)) < 2
       THEN FatalDL("fatal_settings_invalid") /\ UNCHANGED <<user, password>>
       ELSE /\ user' = strip(lines(settings.fd)[1])
            /\ password' = strip(lines(settings.fd)[2])
            /\ pc' = "dl_api"
            /\ UNCHANGED outcome
    /\ UNCHANGED <<flags, options, settings, requests, idx, importer>>

\* landsat_api = landsatxplore.api.API(user, password): the catalog session
\* is opened with the credentials; a refused login raises.
ApiLogin ==
    /\ pc = "dl_api"
    /\ requests' = Append(requests, <<"API">>)
    /\ \/ pc' = "dl_check" /\ UNCHANGED outcome
       \/ UncaughtDL
    /\ UNCHANGED <<flags, options, settings, user, password, idx, importer>>

\* The test for credentials that are None, then the choice of the mode.
CheckCredentials ==
    /\ pc = "dl_check"
    /\ IF user = None \/ password = None
       THEN FatalDL("fatal_no_user")
       ELSE /\ pc' = IF flags["l"] THEN "dl_get_bb" ELSE "dl_ee"
            /\ UNCHANGED outcome
    /\ UNCHANGED <<flags, options, download, idx, importer>>

\* get_bb: fatal in an unprojected (XY) location, else the bounding box of
\* the region.
get_bb ==
    /\ pc = "dl_get_bb"
    /\ \/ pc' = "dl_search" /\ UNCHANGED outcome
       \/ FatalDL("fatal_unprojected")
    /\ UNCHANGED <<flags, options, download, idx, importer>>

\* landsat_api.search(...), then the scenes found are printed.
Search ==
    /\ pc = "dl_search"
    /\ requests' = Append(requests, <<"search">>)
    /\ \/ pc' = "dl_api_logout" /\ UNCHANGED outcome
       \/ UncaughtDL
    /\ UNCHANGED <<flags, options, settings, user, password, idx, importer>>

\* Variant of ApiLogout: the list branch is not closed by an else, the run
\* goes on with the download branch.
ApiLogout_FallThrough ==
    /\ pc = "dl_api_logout"
    /\ requests' = Append(requests, <<"api_logout">>)
    /\ pc' = "dl_ee"
    /\ UNCHANGED <<flags, options, settings, user, password, idx, importer, outcome>>

\* landsat_api.logout(), the last statement of the list branch.
ApiLogout ==
    /\ pc = "dl_api_logout"
    /\ requests' = Append(requests, <<"api_logout">>)
    /\ pc' = "dl_end"
    /\ outcome' = "ok"
    /\ UNCHANGED <<flags, options, settings, user, password, idx, importer>>

\* ee = EarthExplorer(user, password): the download session is opened.
EELogin ==
    /\ pc = "dl_ee"
    /\ requests' = Append(requests, <<"EarthExplorer">>)
    /\ \/ pc' = "dl_download" /\ idx' = 1 /\ UNCHANGED outcome
       \/ UncaughtDL /\ UNCHANGED idx
    /\ UNCHANGED <<flags, options, settings, user, password, importer>>

\* One iteration of for i in ids: ee.download(scene_id=i, ...); a download
\* that fails raises.
Download ==
    /\ pc = "dl_download"
    /\ idx <= Len(ids)
    /\ requests' = Append(requests, <<"download", ids[idx]>>)
    /\ \/ idx' = idx + 1 /\ UNCHANGED <<pc, outcome>>
       \/ UncaughtDL /\ UNCHANGED idx
    /\ UNCHANGED <<flags, options, settings, user, password, importer>>

\* ee.logout(), after the loop.
EELogout ==
    /\ pc = "dl_download"
    /\ idx > Len(ids)
    /\ requests' = Append(requests, <<"ee_logout">>)
    /\ pc' = "dl_end"
    /\ outcome' = "ok"
    /\ UNCHANGED <<flags, options, settings, user, password, idx, importer>>

NextDL ==
    \/ ReadSettings
    \/ ApiLogin
    \/ CheckCredentials
    \/ get_bb
    \/ Search
    \/ ApiLogout
    \/ EELogin
    \/ Download
    \/ EELogout

SpecDL == InitDL /\ [][NextDL]_vars

(***************************************************************************)
(* Properties.                                                             *)
(***************************************************************************)

\* The import strategy a module stands for.
Strategy(mod) ==
    CASE mod = "r.external" -> "LINK"
      [] mod = "r.in.gdal" -> "DIRECT"
      [] mod = "r.import" -> "REPROJECT"
      [] OTHER -> "NONE"

Matches(f) == match[f[1]]

\* The run imports (it is not a print-only run).
Importing == ~flags["p"]

Ended == pc \in {"del", "end"}

\* C1 as stated: with the override flag set, every file is loaded with the
\* DIRECT strategy and no projection check is run, whatever the other flags.
C1_Original ==
    (Importing /\ flags["o"]) =>
        /\ checked = {}
        /\ \A f \in loads : Strategy(module) = "DIRECT"

\* C1 as amended: with the override flag set no projection check is run and the
\* strategy depends on linkOnly and allowReproject alone, never on the file:
\* LINK with linkOnly, else REPROJECT with allowReproject, else DIRECT; LINK
\* and DIRECT pass the override flag on to the loading module.
C1_OverrideNoCheck ==
    (Importing /\ flags["o"]) =>
        /\ checked = {}
        /\ \A f \in loads :
              /\ flags["l"] => Strategy(module) = "LINK"
              /\ (~flags["l"] /\ flags["r"]) => Strategy(module) = "REPROJECT"
              /\ (~flags["l"] /\ ~flags["r"]) => Strategy(module) = "DIRECT"
              /\ Strategy(module) \in {"LINK", "DIRECT"} => args.flags \in {"o", "or"}

C1_Witness ==
    /\ Importing
    /\ flags["o"]
    /\ flags["l"]
    /\ \E f \in loads : ~Matches(f) /\ datasets[map_name(f)] # "none"

\* C2 as stated: a file whose coordinate system matches the location is never
\* loaded with the REPROJECT strategy.
C2_Original ==
    \A f \in loads : Matches(f) => Strategy(module) # "REPROJECT"

\* C2 as amended: a matching file is loaded with REPROJECT exactly when
\* allowReproject is set and linkOnly is not; then every file, matching or
\* not, goes to the reprojecting module and none is checked.
C2_ReprojectIffFlag ==
    \A f \in loads :
        /\ Strategy(module) = "REPROJECT" <=> (flags["r"] /\ ~flags["l"])
        /\ Strategy(module) = "REPROJECT" => f \notin checked

C2_Witness ==
    /\ Importing
    /\ ~flags["o"]
    /\ \E f \in loads :
          /\ Matches(f)
          /\ Strategy(module) = "REPROJECT"
          /\ datasets[map_name(f)] # "none"

\* C3: without allowReproject and override, a file with a mismatched
\* coordinate system is never loaded; once it is checked the run has ended
\* with the fatal projection error, and no later file of the sequence is
\* checked or loaded.
C3_MismatchFatal ==
    (Importing /\ ~flags["r"] /\ ~flags["o"]) =>
        \A i \in 1..Len(files) :
            ~Matches(files[i]) =>
                /\ files[i] \notin loads
                /\ idx <= i
                /\ files[i] \in checked => (Ended /\ outcome = "fatal_projection")
                /\ \A j \in (i + 1)..Len(files) :
                      files[j] \notin checked /\ files[j] \notin loads

C3_Witness ==
    /\ Importing
    /\ flags["l"]
    /\ pc = "end"
    /\ outcome = "fatal_projection"
    /\ Len(files) = 2
    /\ ~Matches(files[1])
    /\ Matches(files[2])
    /\ files[1] \in checked

\* C4: while the selection is empty no file is checked, loaded or printed and
\* the program is never in the import or print phase; a run whose filter
\* selected nothing ends with the fatal nothing-found error, never with success.
C4_EmptySelectionFatal ==
    Len(files) = 0 =>
        /\ checked = {} /\ loads = {} /\ printed = {}
        /\ pc \in {"start", "unzip", "main", "del", "end"}
        /\ outcome # "ok"
        /\ (Ended /\ outcome \notin {"fatal_input_dir", "fatal_unzip_dir", "exception"})
              => outcome \in {"fatal_nothing_pattern", "fatal_nothing_pattern_file"}

C4_Witness ==
    /\ pc = "end"
    /\ dirs # {}
    /\ outcome = "fatal_nothing_pattern"

\* The loop of import_products was entered.
LoopEntered == module # "none"

\* C5 as stated: the failure of one file's ingestion, at whatever step and
\* under whatever strategy, does not end the run: a run that entered the
\* import loop and met no projection mismatch (and has its GDAL library) ends
\* with success after the import module was run for every selected file.
C5_Claim ==
    (Ended /\ LoopEntered /\ outcome \notin {"fatal_projection", "fatal_gdal"}) =>
        /\ outcome = "ok"
        /\ \A f \in Range(files) : f \in loads

\* C6 as stated: when a successful run without linking has ended, the removal
\* list holds exactly the directories that unpacking created and none of them
\* is left in the unzip directory.
C6_Claim ==
    (pc = "end" /\ outcome = "ok" /\ Importing /\ ~flags["l"]) =>
        /\ Range(dir_list) = created
        /\ created \cap dirs = {}

\* C7: in a run that links, nothing is ever removed from the unzip directory:
\* every directory that was there or was unpacked is still there at the end.
C7_LinkKeepsDirs ==
    flags["l"] =>
        /\ removed = {}
        /\ unpacked \subseteq dirs
        /\ \A f \in Range(files) : f[1] \in dirs

C7_Witness ==
    /\ flags["l"]
    /\ pc = "end"
    /\ outcome = "ok"
    /\ created # {}
    /\ \E f \in loads : f[1] \in created /\ datasets[map_name(f)] # "none"

\* C8 as stated: with the skip-extraction flag no archive is unpacked and the
\* unzip directory is left as it was.
C8_Claim ==
    flags["n"] => (unpacked = {} /\ created = {})

\* C9 as stated: only a map made by the REPROJECT strategy is ever replaced by
\* its rounded copy.
C9_Claim ==
    rounded # {} => Strategy(module) = "REPROJECT"

Rounding == pc \in {"use_temp_region", "g.region", "r.mapcalc", "g.rename"}

C12_Claim ==
    LET suffix(n) == SubSeq(n, Len(n) - 3, Len(n))
        band(n) == /\ OccursBefore(<<"_", "B">>, n, Len(n))
                   /\ suffix(n) \in { <<".", "T", "I", "F">>, <<".", "t", "i", "f">> }
    IN  (pc = "main" /\ options.pattern = <<>>) =>
            Range(files) = { f \in GlobScenes \X Members : band(f[2]) }

NoDataset == \A m \in MapNames : datasets[m] = "none"

\* C13 as stated: when both directories exist and no archive of the input
\* directory matches the file-name pattern, no map is ever created and the run
\* never ends with success, whatever the unzip directory holds.
C13_Original ==
    (exists.input /\ exists.unzip_dir /\ InputFiles = {}) =>
        (NoDataset /\ outcome # "ok")

\* C13 as amended: when no archive of the input directory matches the
\* file-name pattern and the unzip directory holds no scene directory that
\* matches it either, nothing is unpacked, no file is selected, no map is
\* created and the run ends with the fatal nothing-found error of the scene
\* glob; scene directories already in the unzip directory are selected from
\* and imported as usual.
C13_NoArchiveNoScene ==
    (exists.input /\ exists.unzip_dir /\ InputFiles = {}
       /\ \A s \in dirs : ~GlobMatch(options.pattern_file, SceneName(s))) =>
        /\ NoDataset
        /\ unpacked = {} /\ files = <<>> /\ loads = {} /\ printed = {}
        /\ pc \in {"start", "unzip", "del", "end"}
        /\ Ended => outcome = "fatal_nothing_pattern_file"

C13_Witness ==
    /\ pc = "end"
    /\ archives # {}
    /\ InputFiles = {}
    /\ dirs = {}
    /\ outcome = "fatal_nothing_pattern_file"

\* C14: in a print-only run no import module is chosen or run and no map is
\* created or rounded, in any state; every file written to the list has had
\* its projection checked for the annotation; and a print-only run that
\* returns has listed every selected file.
C14_PrintOnly ==
    flags["p"] =>
        /\ module = "none"
        /\ loads = {}
        /\ NoDataset /\ tmpmaps = {} /\ rounded = {} /\ finished = {}
        /\ printed \subseteq checked
        /\ (pc = "end" /\ outcome = "ok") =>
              (files # <<>> /\ printed = Range(files))

C14_Witness ==
    /\ flags["p"]
    /\ pc = "end"
    /\ outcome = "ok"
    /\ Len(files) = 2
    /\ printed = Range(files)
    /\ ~Matches(files[1])
    /\ Matches(files[2])

\* C16: every DIRECT load carries the region-clip flag r exactly when the
\* extent option is "region", together with o when the override flag is set;
\* every REPROJECT load carries no flags but an extent parameter equal to the
\* extent option.
C16_ExtentPolicy ==
    \A f \in loads :
        /\ Strategy(module) = "DIRECT" =>
              /\ args.extent = "unset"
              /\ args.flags = (IF options.extent = "region"
                               THEN (IF flags["o"] THEN "or" ELSE "r")
                               ELSE (IF flags["o"] THEN "o" ELSE "None"))
        /\ Strategy(module) = "REPROJECT" =>
              /\ args.extent = options.extent
              /\ args.flags = "unset"

C16_Witness ==
    /\ Strategy(module) = "DIRECT"
    /\ options.extent = "region"
    /\ flags["o"]
    /\ args.flags = "or"
    /\ \E f \in loads : datasets[map_name(f)] # "none"

\* C17 as stated: in a REPROJECT run no temporary region is in force outside
\* the rounding steps of a file; in particular none is when the loop turns to
\* the next file.
C17_Claim ==
    (Strategy(module) = "REPROJECT" /\ ~Rounding /\ pc # "del_temp_region")
        => ~temp_region

\* C19: with linkOnly and allowReproject both set, every file is loaded with
\* LINK (never REPROJECT); without override each file is checked before it is
\* linked, only matching files are linked, and a mismatch ends the run with
\* the fatal projection error.
C19_LinkOverReproject ==
    (Importing /\ flags["l"] /\ flags["r"]) =>
        /\ \A f \in loads :
              /\ Strategy(module) = "LINK"
              /\ ~flags["o"] => (f \in checked /\ Matches(f))
        /\ ~flags["o"] =>
              \A f \in checked : ~Matches(f) => (Ended /\ outcome = "fatal_projection")

C19_Witness ==
    /\ Importing
    /\ flags["l"] /\ flags["r"] /\ ~flags["o"]
    /\ pc = "end"
    /\ outcome = "fatal_projection"
    /\ Len(files) = 2
    /\ files[1] \in loads
    /\ datasets[map_name(files[1])] # "none"
    /\ ~Matches(files[2])

\* The program is sequential and never waits: it takes its next step as long
\* as it has one.
FairSpec == Spec /\ WF_vars(Next)

\* Every selected file was handled: its import module was run, or, in a
\* print-only run, its line was written.
AllProcessed ==
    /\ files # <<>>
    /\ IF flags["p"] THEN printed = Range(files) ELSE Range(files) \subseteq loads

\* C18 as stated, for the runs that passed the zero-candidates check, found
\* their GDAL library and raised no exception: such a run ends with success
\* and every selected file processed.
C18_Original ==
    (pc = "end" /\ files # <<>> /\ outcome \notin {"exception", "fatal_gdal"}) =>
        (outcome = "ok" /\ AllProcessed)

\* C18 as amended: every run terminates. It ends either with success, every
\* selected file having been processed, or with a fatal abort: a missing
\* directory, the zero-candidates check (of the scene glob or of the
\* selection), a projection mismatch in a run without override that links or
\* does not reproject, a missing GDAL library, or an exception that nothing catches
\* (extraction, reading a file through GDAL). Once the zero-candidates check
\* has passed, the run ends with every file processed unless one of the last
\* three aborts it.
C18_Termination ==
    /\ <>(pc = "end")
    /\ [](pc = "end" =>
            \/ outcome = "ok" /\ AllProcessed
            \/ /\ outcome \in {"fatal_input_dir", "fatal_unzip_dir",
                               "fatal_nothing_pattern_file"}
               /\ files = <<>>
            \/ /\ outcome = "fatal_nothing_pattern"
               /\ files = <<>> /\ GlobScenes # {}
            \/ /\ outcome = "fatal_projection"
               /\ Importing /\ ~flags["o"] /\ (flags["l"] \/ ~flags["r"])
               /\ \E f \in checked : ~Matches(f)
            \/ outcome \in {"fatal_gdal", "exception"})
    /\ (pc \in {"loop", "print"}) ~>
          (pc = "end" /\ \/ outcome = "ok" /\ AllProcessed
                         \/ outcome \in {"fatal_projection", "fatal_gdal", "exception"})

C18_Witness ==
    /\ pc = "end"
    /\ outcome = "ok"
    /\ Importing
    /\ Len(files) = 2
    /\ datasets[map_name(files[1])] = "none"
    /\ datasets[map_name(files[2])] = "CELL"
    /\ AllProcessed

(***************************************************************************)
(* C15.                                                                    *)
(***************************************************************************)

\* Either program is run: the importer or the downloader.
InitBoth == Init \/ InitDL

NextBoth == Next \/ NextDL

SpecBoth == InitBoth /\ [][NextBoth]_vars

\* The run is one of the downloader.
Downloading ==
    pc \in {"dl_start", "dl_api", "dl_check", "dl_get_bb", "dl_search",
            "dl_api_logout", "dl_ee", "dl_download", "dl_end"}

\* The settings file cannot be read or has fewer than two non-blank lines.
Malformed ==
    /\ options.settings = "file"
    /\ ~settings.readable \/ Len(lines(settings.fd)) < 2

\* The user or the password that was read is empty.
MissingCredentials == user = <<>> \/ password = <<>>

\* C15: a configuration error is always fatal and aborts before any work.
\* In the importer, when the input or the unzip directory is missing, no
\* archive is extracted, no file is selected, loaded or printed, and the run
\* ends with the fatal message of the missing directory. In the downloader,
\* when the settings file is malformed or a credential is missing, no
\* request (login, search or download) is made, and the run ends with the
\* fatal message of the settings or of the credentials.
C15_Claim ==
    /\ (~Downloading /\ (~exists.input \/ ~exists.unzip_dir)) =>
          /\ unpacked = {} /\ created = {} /\ dir_list = <<>>
          /\ files = <<>> /\ loads = {} /\ printed = {}
          /\ Ended => outcome \in {"fatal_input_dir", "fatal_unzip_dir"}
    /\ (Downloading /\ (Malformed \/ MissingCredentials)) =>
          /\ requests = <<>>
          /\ pc = "dl_end" =>
                outcome \in {"fatal_settings_open", "fatal_settings_invalid",
                             "fatal_no_user"}

(***************************************************************************)
(* C20.                                                                    *)
(***************************************************************************)

\* Number of requests of one kind made so far.
Count(kind) ==
    Cardinality({ i \in 1..Len(requests) : requests[i][1] = kind })

\* The scene ids of the download requests made so far, in order.
Downloaded ==
    LET d == SelectSeq(requests, LAMBDA r : r[1] = "download")
    IN  [i \in 1..Len(d) |-> d[i][2]]

\* C20: the list mode and the download mode exclude each other within a
\* run. With the flag l no download session is opened and no scene is
\* downloaded, at most one search is made, and a run that reaches its end
\* has made exactly one. Without the flag no search is made, the downloads
\* made so far are a leading part of the ids of the id option, one per
\* entry and in the order given, a run that reaches its end has downloaded
\* every entry once, and the logout of the download session is the last
\* request, made once, after every entry was downloaded.
C20_ListOrDownload ==
    Downloading =>
      /\ ~(Count("search") > 0 /\ Count("download") + Count("EarthExplorer") > 0)
      /\ flags["l"] =>
            /\ Count("download") = 0
            /\ Count("EarthExplorer") = 0
            /\ Count("ee_logout") = 0
            /\ Count("search") <= 1
            /\ outcome = "ok" => Count("search") = 1
      /\ ~flags["l"] =>
            /\ Count("search") = 0
            /\ Len(Downloaded) <= Len(ids)
            /\ Downloaded = SubSeq(ids, 1, Len(Downloaded))
            /\ outcome = "ok" => Downloaded = ids
            /\ Count("ee_logout") > 0 =>
                  /\ Count("ee_logout") = 1
                  /\ requests[Len(requests)] = <<"ee_logout">>
                  /\ Downloaded = ids

\* A download run that reached its end after two different scenes were
\* requested: both were downloaded, the logout is the last request.
C20_Witness ==
    /\ pc = "dl_end"
    /\ outcome = "ok"
    /\ ~flags["l"]
    /\ Len(ids) = 2
    /\ ids[1] # ids[2]
    /\ Downloaded = ids
    /\ requests[Len(requests)] = <<"ee_logout">>

==============================================================================
